---- MODULE Spec2Model ----
(***************************************************************************)
(* Schemakrock: timetable store (db.py), parsing helpers (parsing.py),     *)
(* the conflict detector and collision reports (conflicts.py) and the      *)
(* Schedule index with its free-slot search (models.py).                   *)
(*                                                                         *)
(* Representation.                                                         *)
(*  - a datetime.time is the number of minutes since midnight (the code    *)
(*    only ever builds time(hh, mm));                                      *)
(*  - the text "HH:MM" is the record [hh |-> .., mm |-> ..];               *)
(*  - a semicolon separated text "a;b" is the sequence of its pieces       *)
(*    <<"a", "b">> (str.split(";") and ";".join are the two directions);   *)
(*  - a weeks text such as "36-37,40" is the sequence of its pieces, a     *)
(*    piece being <<a, b>> for the range a-b and <<n>> for a lone number;  *)
(*  - Optional[Set[..]] is [isNone |-> BOOLEAN, set |-> ..].               *)
(***************************************************************************)
EXTENDS Integers, Sequences, FiniteSets, TLC

VARIABLES db, op, res

vars == <<db, op, res>>

----------------------------------------------------------------------------
(* Bounds of the model *)

\* largest number of rows the events table holds
MaxEvents == 2

----------------------------------------------------------------------------
(* Generic helpers: Python's sorted()/list.sort() (stable) on sequences *)

\* lexicographic order on integer tuples of one length (Python tuple order)
LexLess(a, b) ==
    \E i \in 1..Len(a) : a[i] < b[i] /\ \A j \in 1..(i - 1) : a[j] = b[j]

RECURSIVE InsertSorted(_, _)
\* insert the pair p = <<key, value>> into the key-sorted sequence s, after
\* every pair whose key is not greater (what keeps the sort stable)
InsertSorted(p, s) ==
    IF s = <<>> THEN <<p>>
    ELSE IF LexLess(p[1], Head(s)[1]) THEN <<p>> \o s
    ELSE <<Head(s)>> \o InsertSorted(p, Tail(s))

RECURSIVE SortPairs(_)
SortPairs(s) ==
    IF s = <<>> THEN <<>>
    ELSE InsertSorted(s[Len(s)], SortPairs(SubSeq(s, 1, Len(s) - 1)))

\* the values of s in the stable order of their keys: keys[i] is the integer
\* tuple s[i] is sorted by
StableSort(s, keys) ==
    LET sorted == SortPairs([i \in 1..Len(s) |-> <<keys[i], s[i]>>])
    IN [i \in 1..Len(s) |-> sorted[i][2]]

RECURSIVE SortedInts(_)
\* sorted(S) for a set of integers
SortedInts(S) ==
    IF S = {} THEN <<>>
    ELSE LET m == CHOOSE x \in S : \A y \in S : x <= y
         IN <<m>> \o SortedInts(S \ {m})

SeqRange(s) == {s[i] : i \in 1..Len(s)}

\* sequences over S of length lo..hi
SeqsOf(S, lo, hi) == UNION {[1..n -> S] : n \in lo..hi}

----------------------------------------------------------------------------
(* parsing.py *)

\* str.upper() on the tokens of the model
Upper(t) ==
    CASE t = "mtbg" -> "MTBG"
      [] t = "ngmv" -> "NGMV"
      [] t = "anna" -> "ANNA"
      [] t = "bo"   -> "BO"
      [] OTHER      -> t

\* code-point order of the (upper-case) tokens, as sorted() sees them
TokenRank(t) ==
    CASE t = "ANNA" -> 1
      [] t = "BO"   -> 2
      [] t = "MT"   -> 3
      [] t = "MTBG" -> 4
      [] t = "NGMV" -> 5
      [] OTHER      -> 6

RECURSIVE SortedTokens(_)
\* sorted(S) for a set of tokens
SortedTokens(S) ==
    IF S = {} THEN <<>>
    ELSE LET m == CHOOSE x \in S : \A y \in S : TokenRank(x) <= TokenRank(y)
         IN <<m>> \o SortedTokens(S \ {m})

INT_TO_DAY(d) ==
    CASE d = 0 -> "Man"
      [] d = 1 -> "Tis"
      [] d = 2 -> "Ons"
      [] d = 3 -> "Tors"
      [] d = 4 -> "Fre"
      [] d = 5 -> "Lor"
      [] d = 6 -> "Son"

\* the weekday texts of the model that str.isdigit() accepts, with int(s)
DigitValue(s) ==
    CASE s = "0" -> 0
      [] s = "1" -> 1
      [] s = "7" -> 7

IsDigit(s) == s \in {"0", "1", "7"}

\* DAY_TO_INT, after _normalize_ascii and lower(), on the names of the model
InDayToInt(s) == s \in {"man", "mandag", "tis", "tisdag", "fre", "fredag", "mon", "tue"}

DAY_TO_INT(s) ==
    CASE s \in {"man", "mandag", "mon"} -> 0
      [] s \in {"tis", "tisdag", "tue"} -> 1
      [] s \in {"fre", "fredag"} -> 4

\* value: [raw |-> the text, norm |-> _normalize_ascii(text).lower(),
\*         pre3 |-> the first three characters of norm]
\* Result: [ok |-> TRUE, day |-> 0..6] or [ok |-> FALSE] (ValueError)
parse_day(value) ==
    IF IsDigit(value.raw)
    THEN LET n == DigitValue(value.raw)
         IN IF 0 <= n /\ n <= 6 THEN [ok |-> TRUE, day |-> n]
            ELSE IF 1 <= n /\ n <= 7 THEN [ok |-> TRUE, day |-> (n - 1) % 7]
            ELSE [ok |-> FALSE, day |-> 0]
    ELSE IF InDayToInt(value.norm) THEN [ok |-> TRUE, day |-> DAY_TO_INT(value.norm)]
    ELSE IF InDayToInt(value.pre3) THEN [ok |-> TRUE, day |-> DAY_TO_INT(value.pre3)]
    ELSE [ok |-> FALSE, day |-> 0]

\* "HH:MM" -> time(hh, mm)
parse_time_str(x) == x.hh * 60 + x.mm

\* f"{t.hour:02d}:{t.minute:02d}"
time_to_str(t) == [hh |-> t \div 60, mm |-> t % 60]

\* {g.strip().upper() for g in s.split(";") if g.strip()}
parse_program(s) == {Upper(s[i]) : i \in {j \in 1..Len(s) : s[j] # ""}}

\* ";".join(sorted(set(gs)))
programs_to_str(gs) == SortedTokens(gs)

\* ranges lo..hi (either order) and lone numbers
parse_weeks(s) ==
    UNION {IF Len(s[i]) = 2
           THEN (IF s[i][1] <= s[i][2] THEN s[i][1]..s[i][2] ELSE s[i][2]..s[i][1])
           ELSE {s[i][1]} : i \in 1..Len(s)}

overlaps_lopsided(a_start, a_end, b_start, b_end) ==
    (a_start < b_end) /\ (b_start <= a_end)

overlaps_touching(a_start, a_end, b_start, b_end) ==
    (a_start <= b_end) /\ (b_start <= a_end)

overlaps(a_start, a_end, b_start, b_end) ==
    (a_start < b_end) /\ (b_start < a_end)
        /\ ~(a_end = b_start \/ b_end = a_start)

----------------------------------------------------------------------------
(* The uploaded files of the model *)

\* a weekday cell with what _normalize_ascii(..).lower() and [:3] make of it
DayCell(raw, norm, pre3) == [raw |-> raw, norm |-> norm, pre3 |-> pre3]

HHMM(hh, mm) == [hh |-> hh, mm |-> mm]

UploadRow(course, groups, day, start, end, weeks, semester, teacher) ==
    [course |-> course, groups |-> groups, day |-> day, start |-> start,
     end |-> end, weeks |-> weeks, semester |-> semester, teacher |-> teacher]

Mon == DayCell("0", "0", "0")
MonName == DayCell("Mandag", "mandag", "man")
Tue == DayCell("tisd", "tisd", "tis")
Fri == DayCell("Fredag", "fredag", "fre")

\* the rows an uploaded file is made of
UploadRows ==
    { UploadRow("K1", <<"MTBG">>, Mon, HHMM(9, 0), HHMM(10, 0), <<<<36>>>>, "HT", <<>>),
      UploadRow("K2", <<"MTBG">>, MonName, HHMM(10, 0), HHMM(11, 0), <<<<36>>>>, "HT", <<"ANNA">>),
      UploadRow("K3", <<"MTBG">>, Mon, HHMM(9, 0), HHMM(11, 0), <<<<36>>>>, "HT", <<"anna">>),
      UploadRow("K4", <<"ngmv", "MTBG">>, Mon, HHMM(10, 0), HHMM(12, 0), <<<<37, 36>>>>, "HT", <<"BO">>),
      UploadRow("K5", <<"NGMV">>, Tue, HHMM(9, 0), HHMM(11, 0), <<<<37>>>>, "HT", <<"ANNA">>),
      UploadRow("K6", <<"">>, Mon, HHMM(9, 30), HHMM(10, 30), <<<<36>>, <<37>>>>, "HT", <<"BO", "ANNA">>),
      UploadRow("K7", <<"MTBG">>, Mon, HHMM(11, 0), HHMM(9, 0), <<<<36>>>>, "HT", <<>>),
      UploadRow("K8", <<"NGMV">>, Mon, HHMM(9, 0), HHMM(10, 0), <<<<36>>>>, "VT", <<"BO">>),
      UploadRow("K9", <<"NGMV">>, Mon, HHMM(10, 30), HHMM(11, 0), <<<<36>>>>, "HT", <<>>),
      UploadRow("K0", <<"MTBG">>, DayCell("9", "9", "9"), HHMM(9, 0), HHMM(10, 0), <<<<36>>>>, "HT", <<>>) }

\* the rows of a week's timetable: one program and one teacher, two
\* overlapping sessions on the Monday and two on the Friday of week 36
WeekFileRows ==
    { UploadRow("W1", <<"MTBG">>, Mon, HHMM(9, 0), HHMM(11, 0), <<<<36>>>>, "HT", <<"ANNA">>),
      UploadRow("W2", <<"MTBG">>, Mon, HHMM(10, 0), HHMM(12, 0), <<<<36>>>>, "HT", <<"ANNA">>),
      UploadRow("W3", <<"MTBG">>, Fri, HHMM(9, 0), HHMM(11, 0), <<<<36>>>>, "HT", <<"ANNA">>),
      UploadRow("W4", <<"MTBG">>, Fri, HHMM(10, 0), HHMM(12, 0), <<<<36>>>>, "HT", <<"ANNA">>) }

\* sessions of three programs, one of which (MT) has a name that the name of
\* another (MTBG) begins with
ProgramFileRows ==
    { UploadRow("P1", <<"MT">>, Mon, HHMM(9, 0), HHMM(10, 0), <<<<36>>>>, "HT", <<>>),
      UploadRow("P2", <<"MTBG">>, Mon, HHMM(9, 0), HHMM(10, 0), <<<<36>>>>, "HT", <<>>),
      UploadRow("P3", <<"NGMV", "MT">>, Mon, HHMM(10, 0), HHMM(11, 0), <<<<36>>>>, "HT", <<>>),
      UploadRow("P4", <<"NGMV">>, Tue, HHMM(9, 0), HHMM(10, 0), <<<<36>>>>, "VT", <<>>),
      UploadRow("P5", <<"">>, Tue, HHMM(9, 0), HHMM(10, 0), <<<<36>>>>, "HT", <<"BO">>) }

\* rows of files with faults: I1 is sound, I3 has a weekday that is none, I4
\* a start time and I5 an end time that is none
ImportRows ==
    { UploadRow("I1", <<"MTBG">>, Mon, HHMM(9, 0), HHMM(10, 0), <<<<36>>>>, "HT", <<"ANNA">>),
      UploadRow("I3", <<"MTBG">>, DayCell("9", "9", "9"), HHMM(9, 0), HHMM(10, 0), <<<<36>>>>, "HT", <<>>),
      UploadRow("I4", <<"MTBG">>, Mon, HHMM(25, 0), HHMM(10, 0), <<<<36>>>>, "HT", <<>>),
      UploadRow("I5", <<"MTBG">>, Mon, HHMM(9, 0), HHMM(10, 75), <<<<36>>>>, "HT", <<>>) }

\* the columns a file may lack
DroppedColumns == {{}, {"teacher"}, {"weeks"}}

Semesters == {"HT", "VT"}
Programs == {"MTBG", "NGMV"}
Teachers == {"ANNA", "BO"}
Weeks == {36, 37}
Days == {0, 1}

----------------------------------------------------------------------------
(* db.py: the events table is the sequence of its rows in rowid order *)

\* one tuple of bulk_insert_events' rows list
NormalizedRow(r) ==
    [course |-> r.course,
     groups |-> programs_to_str(parse_program(r.groups)),
     day |-> parse_day(r.day).day,
     start |-> time_to_str(parse_time_str(r.start)),
     end |-> time_to_str(parse_time_str(r.end)),
     weeks |-> r.weeks,
     semester |-> r.semester,
     teacher |-> programs_to_str(parse_program(r.teacher))]

\* required of normalize_columns
RequiredColumns == {"course", "groups", "day", "start", "end", "weeks", "semester"}

\* normalize_columns(df), the columns of df being the fields of its rows:
\* [ok |-> FALSE] is the ValueError for a missing column; a missing teacher
\* column is added, empty
normalize_columns(df) ==
    IF \E i \in 1..Len(df) : ~(RequiredColumns \subseteq DOMAIN df[i])
    THEN [ok |-> FALSE, rows |-> <<>>]
    ELSE [ok |-> TRUE,
          rows |-> [i \in 1..Len(df) |->
                      [c \in RequiredColumns \cup {"teacher"} |->
                         IF c \in DOMAIN df[i] THEN df[i][c] ELSE <<>>]]]

\* time(hh, mm) at the end of parse_time_str raises ValueError outside
\* 0..23 and 0..59
parse_time_str_ok(x) == x.hh \in 0..23 /\ x.mm \in 0..59

\* the tuple of the row can be built: parse_day and parse_time_str return
RowParses(r) ==
    parse_day(r.day).ok /\ parse_time_str_ok(r.start) /\ parse_time_str_ok(r.end)

RECURSIVE InsertWhileParsing(_, _)
InsertWhileParsing(table, rows) ==
    IF rows = <<>> THEN [ok |-> TRUE, table |-> table]
    ELSE IF ~RowParses(Head(rows)) THEN [ok |-> FALSE, table |-> table]
    ELSE InsertWhileParsing(Append(table, NormalizedRow(Head(rows))), Tail(rows))

bulk_insert_events_rowwise(table, df) ==
    IF ~normalize_columns(df).ok THEN [ok |-> FALSE, table |-> table]
    ELSE InsertWhileParsing(table, normalize_columns(df).rows)

\* the table after bulk_insert_events(df): a missing column or a row that
\* fails to parse raises before the INSERT, and nothing is written
bulk_insert_events(table, df) ==
    LET norm == normalize_columns(df)
    IN IF ~norm.ok \/ \E i \in 1..Len(norm.rows) : ~RowParses(norm.rows[i])
       THEN [ok |-> FALSE, table |-> table]
       ELSE [ok |-> TRUE,
             table |-> table \o [i \in 1..Len(norm.rows) |-> NormalizedRow(norm.rows[i])]]

fetch_events_all(table, semester) == table

fetch_events_for_semester(table, semester) ==
    SelectSeq(table, LAMBDA r : r.semester = semester)

erase_all(table) == <<>>

erase_by_semester(table, semester) ==
    SelectSeq(table, LAMBDA r : r.semester # semester)

\* "sub in token" on the (upper-case) program tokens of the model
TokenContains(token, sub) ==
    \/ token = sub
    \/ token = "MTBG" /\ sub = "MT"

\* groups LIKE '%substr%' COLLATE NOCASE, for a substr without ";": the stored
\* text is the tokens joined with ";", so the pattern matches when it lies
\* within one token
GroupsLike(groups, substr) ==
    \E i \in 1..Len(groups) : TokenContains(groups[i], substr)

\* DELETE FROM events WHERE groups LIKE ? COLLATE NOCASE, (f"%{substr}%",)
erase_by_program(table, substr) ==
    SelectSeq(table, LAMBDA r : ~GroupsLike(r.groups, substr))

\* sorted tokens of SELECT DISTINCT groups FROM events
list_program_tokens(table) ==
    SortedTokens(UNION {SeqRange(table[i].groups) : i \in 1..Len(table)})

----------------------------------------------------------------------------
(* conflicts.py: check_conflict_in_db *)

NoneSet == [isNone |-> TRUE, set |-> {}]
SomeSet(S) == [isNone |-> FALSE, set |-> S]

\* truth value of an Optional[Set]: None and the empty set are falsy
Truthy(o) == ~o.isNone /\ o.set # {}

same_group_subset(groups, g_set) ==
    IF groups # {} THEN groups \subseteq g_set ELSE FALSE

\* same_group = bool(groups & g_set) if groups else False
same_group(groups, g_set) ==
    IF groups # {} THEN (groups \cap g_set) # {} ELSE FALSE

\* same_teacher = bool((teachers or set()) & t_set) if teachers else False
same_teacher(teachers, t_set) ==
    IF Truthy(teachers)
    THEN ((IF Truthy(teachers) THEN teachers.set ELSE {}) \cap t_set) # {}
    ELSE FALSE

SharesDimension_always(groups, teachers, g_set, t_set) == TRUE

SharesDimension_both(groups, teachers, g_set, t_set) ==
    same_group(groups, g_set) /\ same_teacher(teachers, t_set)

\* the row passes "if not (same_group or same_teacher): continue"
SharesDimension(groups, teachers, g_set, t_set) ==
    same_group(groups, g_set) \/ same_teacher(teachers, t_set)

WeekCovered_always(week, weeks) == TRUE

\* the row passes "if week not in parse_weeks(weeks): continue"
WeekCovered(week, weeks) == week \in parse_weeks(weeks)

\* the dict appended for a conflicting row
ConflictRecord(row, week) ==
    LET t_set == parse_program(row.teacher)
    IN [kurskod |-> row.course,
        program |-> row.groups,
        larare |-> IF t_set # {} THEN SortedTokens(t_set) ELSE <<>>,
        veckonummer |-> week,
        veckodag |-> INT_TO_DAY(row.day),
        start |-> time_to_str(parse_time_str(row.start)),
        slut |-> time_to_str(parse_time_str(row.end))]

\* the body of the loop for one row: the appended record, or nothing
ConflictOfRow(row, groups, day, start, end, week, teachers) ==
    IF row.day # day THEN <<>>
    ELSE IF ~SharesDimension(groups, teachers, parse_program(row.groups),
                             parse_program(row.teacher)) THEN <<>>
    ELSE IF ~WeekCovered(week, row.weeks) THEN <<>>
    ELSE IF overlaps(parse_time_str(row.start), parse_time_str(row.end), start, end)
         THEN <<ConflictRecord(row, week)>>
         ELSE <<>>

RECURSIVE ConflictsOfRows(_, _, _, _, _, _, _)
ConflictsOfRows(rows, groups, day, start, end, week, teachers) ==
    IF rows = <<>> THEN <<>>
    ELSE ConflictOfRow(Head(rows), groups, day, start, end, week, teachers)
           \o ConflictsOfRows(Tail(rows), groups, day, start, end, week, teachers)

check_conflict_in_db(table, semester, groups, day, start, end, week, teachers) ==
    ConflictsOfRows(fetch_events_for_semester(table, semester),
                    groups, day, start, end, week, teachers)

----------------------------------------------------------------------------
(* conflicts.py: the collision reports.  A DataFrame is the sequence of its
   rows; a report is [kind |-> "frame", rows |-> ..], or [kind |-> "KeyError"]
   when sort_values is asked for a column the frame does not have. *)

\* code-point order of the weekday labels, as sort_values sees the strings
DayLabelRank(label) ==
    CASE label = "Fre"  -> 1
      [] label = "Lor"  -> 2
      [] label = "Man"  -> 3
      [] label = "Ons"  -> 4
      [] label = "Son"  -> 5
      [] label = "Tis"  -> 6
      [] label = "Tors" -> 7

\* code-point order of the semester names
SemesterRank(s) == CASE s = "HT" -> 1 [] s = "VT" -> 2

ExpandedRows_firstWeek(row, tokens, dim, other) ==
    LET all == SortedInts(parse_weeks(row.weeks))
        ws == IF all = <<>> THEN <<>> ELSE <<all[1]>>
        n == Len(tokens)
    IN [k \in 1..(Len(ws) * n) |->
          [termin |-> row.semester,
           veckonummer |-> ws[((k - 1) \div n) + 1],
           dag_num |-> row.day,
           veckodag |-> INT_TO_DAY(row.day),
           token |-> tokens[((k - 1) % n) + 1],
           dim |-> dim,
           other |-> other,
           kurskod |-> row.course,
           start |-> time_to_str(parse_time_str(row.start)),
           slut |-> time_to_str(parse_time_str(row.end))]]

\* the rows one event adds to exp_rows: for w in sorted(weeks): for g in tokens
ExpandedRows(row, tokens, dim, other) ==
    LET ws == SortedInts(parse_weeks(row.weeks))
        n == Len(tokens)
    IN [k \in 1..(Len(ws) * n) |->
          [termin |-> row.semester,
           veckonummer |-> ws[((k - 1) \div n) + 1],
           dag_num |-> row.day,
           veckodag |-> INT_TO_DAY(row.day),
           token |-> tokens[((k - 1) % n) + 1],
           dim |-> dim,
           other |-> other,
           kurskod |-> row.course,
           start |-> time_to_str(parse_time_str(row.start)),
           slut |-> time_to_str(parse_time_str(row.end))]]

\* "if flt and not (tokens & flt): continue" lets the row through
PassesSetFilter(flt, tokens) == ~Truthy(flt) \/ (tokens \cap flt.set) # {}

\* "if (days_filter is not None) and (d_int not in days_filter): continue"
PassesDayFilter(days_filter, d) == days_filter.isNone \/ d \in days_filter.set

RECURSIVE ProgramExpansion(_, _, _, _)
\* exp_rows of compute_db_collisions
ProgramExpansion(rows, programs_filter, days_filter, teacher_filter) ==
    IF rows = <<>> THEN <<>>
    ELSE LET row == Head(rows)
             gset == parse_program(row.groups)
             tset == parse_program(row.teacher)
         IN (IF /\ PassesSetFilter(programs_filter, gset)
                /\ PassesSetFilter(teacher_filter, tset)
                /\ PassesDayFilter(days_filter, row.day)
             THEN ExpandedRows(row, SortedTokens(gset), "program", SortedTokens(tset))
             ELSE <<>>)
            \o ProgramExpansion(Tail(rows), programs_filter, days_filter, teacher_filter)

RECURSIVE TeacherExpansion(_, _, _)
\* exp of compute_teacher_collisions; an event without teacher gives rows with
\* the empty token "".  (The order a set of teachers is iterated in does not
\* reach the report: groupby regroups the rows by teacher.)
TeacherExpansion(rows, days_filter, teachers_filter) ==
    IF rows = <<>> THEN <<>>
    ELSE LET row == Head(rows)
             tset == parse_program(row.teacher)
         IN (IF /\ PassesSetFilter(teachers_filter, tset)
                /\ PassesDayFilter(days_filter, row.day)
             THEN ExpandedRows(row, IF tset # {} THEN SortedTokens(tset) ELSE <<"">>,
                               "teacher", SortedTokens(parse_program(row.groups)))
             ELSE <<>>)
            \o TeacherExpansion(Tail(rows), days_filter, teachers_filter)

\* a groupby key: (termin, token, veckonummer, dag_num)
KeyOf(e) == <<e.termin, e.token, e.veckonummer, e.dag_num>>

\* the order groupby yields its keys in (sort=True)
KeyOrder(k) == <<SemesterRank(k[1]), TokenRank(k[2]), k[3], k[4]>>

RECURSIVE SortedKeys(_)
SortedKeys(K) ==
    IF K = {} THEN <<>>
    ELSE LET m == CHOOSE x \in K :
                    \A y \in K \ {x} : LexLess(KeyOrder(x), KeyOrder(y))
         IN <<m>> \o SortedKeys(K \ {m})

InBucket_anyToken(e, key) ==
    e.termin = key[1] /\ e.veckonummer = key[3] /\ e.dag_num = key[4]

\* the expanded row belongs to the group of this key
InBucket(e, key) == KeyOf(e) = key

\* rows2 of one group: its rows, sorted on start
BucketRows(exp, key) ==
    LET grp == SelectSeq(exp, LAMBDA e : InBucket(e, key))
    IN StableSort(grp, [i \in 1..Len(grp) |-> <<parse_time_str(grp[i].start)>>])

\* one row of the report
PairRecord(key, r1, r2) ==
    [termin |-> key[1],
     dim |-> r1.dim,
     token |-> key[2],
     veckonummer |-> key[3],
     veckodag |-> INT_TO_DAY(key[4]),
     kurskod_1 |-> r1.kurskod, start_1 |-> r1.start, slut_1 |-> r1.slut,
     other_1 |-> r1.other,
     kurskod_2 |-> r2.kurskod, start_2 |-> r2.start, slut_2 |-> r2.slut,
     other_2 |-> r2.other]

RECURSIVE ScanFrom_breakOnEnd(_, _, _, _)
ScanFrom_breakOnEnd(rows2, key, i, j) ==
    IF j > Len(rows2) THEN <<>>
    ELSE LET s1 == parse_time_str(rows2[i].start)
             e1 == parse_time_str(rows2[i].slut)
             s2 == parse_time_str(rows2[j].start)
             e2 == parse_time_str(rows2[j].slut)
         IN IF e2 >= e1 THEN <<>>
            ELSE (IF overlaps(s1, e1, s2, e2)
                  THEN <<PairRecord(key, rows2[i], rows2[j])>>
                  ELSE <<>>)
                 \o ScanFrom_breakOnEnd(rows2, key, i, j + 1)

RECURSIVE ScanFrom(_, _, _, _)
\* the inner loop "for j in range(i + 1, len(rows2))" from j on, with its break
ScanFrom(rows2, key, i, j) ==
    IF j > Len(rows2) THEN <<>>
    ELSE LET s1 == parse_time_str(rows2[i].start)
             e1 == parse_time_str(rows2[i].slut)
             s2 == parse_time_str(rows2[j].start)
             e2 == parse_time_str(rows2[j].slut)
         IN IF s2 >= e1 THEN <<>>
            ELSE (IF overlaps(s1, e1, s2, e2)
                  THEN <<PairRecord(key, rows2[i], rows2[j])>>
                  ELSE <<>>)
                 \o ScanFrom(rows2, key, i, j + 1)

RECURSIVE ScanBucket(_, _, _)
\* the outer loop "for i in range(len(rows2))" from i on
ScanBucket(rows2, key, i) ==
    IF i > Len(rows2) THEN <<>>
    ELSE ScanFrom(rows2, key, i, i + 1) \o ScanBucket(rows2, key, i + 1)

RECURSIVE ScanGroups_noSkip(_, _, _)
ScanGroups_noSkip(exp, keys, skipEmpty) ==
    IF keys = <<>> THEN <<>>
    ELSE ScanBucket(BucketRows(exp, Head(keys)), Head(keys), 1)
         \o ScanGroups_noSkip(exp, Tail(keys), skipEmpty)

RECURSIVE ScanGroups(_, _, _)
\* the loop over exp_df.groupby(..); skipEmpty: "if not teacher: continue"
ScanGroups(exp, keys, skipEmpty) ==
    IF keys = <<>> THEN <<>>
    ELSE (IF skipEmpty /\ Head(keys)[2] = "" THEN <<>>
          ELSE ScanBucket(BucketRows(exp, Head(keys)), Head(keys), 1))
         \o ScanGroups(exp, Tail(keys), skipEmpty)

\* sort_values([termin, token, veckonummer, veckodag, start_1, start_2])
ReportSortKey(c) ==
    <<SemesterRank(c.termin), TokenRank(c.token), c.veckonummer,
      DayLabelRank(c.veckodag), parse_time_str(c.start_1), parse_time_str(c.start_2)>>

\* pd.DataFrame(collisions).sort_values([...]).reset_index(drop=True): a frame
\* made from an empty list has no columns, and sort_values raises KeyError
SortedReport(collisions) ==
    IF collisions = <<>> THEN [kind |-> "KeyError"]
    ELSE [kind |-> "frame",
          rows |-> StableSort(collisions,
                              [i \in 1..Len(collisions) |-> ReportSortKey(collisions[i])])]

CollisionReport(exp, skipEmpty) ==
    IF exp = <<>> THEN [kind |-> "frame", rows |-> <<>>]
    ELSE SortedReport(ScanGroups(exp, SortedKeys({KeyOf(exp[i]) : i \in 1..Len(exp)}),
                                 skipEmpty))

compute_db_collisions(table, semester, programs_filter, days_filter, teacher_filter) ==
    CollisionReport(ProgramExpansion(fetch_events_for_semester(table, semester),
                                     programs_filter, days_filter, teacher_filter),
                    FALSE)

compute_teacher_collisions(table, semester, days_filter, teachers_filter) ==
    CollisionReport(TeacherExpansion(fetch_events_for_semester(table, semester),
                                     days_filter, teachers_filter),
                    TRUE)

----------------------------------------------------------------------------
(* streamlit_timetabling_helper_sqlite_backed.py: the single-file variant of
   check_conflict_in_db, which has no teachers and selects the semester and the
   day in SQL *)

SingleFileConflictRecord(row, week) ==
    [kurskod |-> row.course,
     program |-> row.groups,
     veckonummer |-> week,
     veckodag |-> INT_TO_DAY(row.day),
     start |-> time_to_str(parse_time_str(row.start)),
     slut |-> time_to_str(parse_time_str(row.end))]

SingleFileWeekCovered(week, weeks) == week \in parse_weeks(weeks)

RECURSIVE SingleFileConflictsOfRows(_, _, _, _, _)
SingleFileConflictsOfRows(rows, groups, start, end, week) ==
    IF rows = <<>> THEN <<>>
    ELSE LET row == Head(rows)
             g_set == parse_program(row.groups)
         IN (IF (groups \cap g_set) # {} /\ SingleFileWeekCovered(week, row.weeks)
                  /\ overlaps(parse_time_str(row.start), parse_time_str(row.end),
                              start, end)
             THEN <<SingleFileConflictRecord(row, week)>>
             ELSE <<>>)
            \o SingleFileConflictsOfRows(Tail(rows), groups, start, end, week)

single_file_check_conflict_in_db(table, groups, day, start, end, week, semester) ==
    SingleFileConflictsOfRows(
        SelectSeq(table, LAMBDA r : r.semester = semester /\ r.day = day),
        groups, start, end, week)

----------------------------------------------------------------------------
(* models.py: Event, Schedule and find_free_slots.  A datetime of today is the
   number of minutes since today's midnight; it may leave 0..1439. *)

\* one Event of events_from_db_rows
EventView(row) ==
    [course |-> row.course,
     groups |-> parse_program(row.groups),
     day |-> row.day,
     start |-> parse_time_str(row.start),
     end |-> parse_time_str(row.end),
     weeks |-> parse_weeks(row.weeks),
     teachers |-> parse_program(row.teacher)]

events_from_db_rows(rows) == [i \in 1..Len(rows) |-> EventView(rows[i])]

\* index.get(g, {}).get(w, {}).get(d, [])
IndexGet(index, g, w, d) ==
    IF <<g, w, d>> \in DOMAIN index THEN index[<<g, w, d>>] ELSE <<>>

IndexAdd_once(index, ev) ==
    LET keys == {<<g, w, ev.day>> : g \in ev.groups, w \in ev.weeks}
        now(k) == IF k \in DOMAIN index THEN index[k] ELSE <<>>
    IN [k \in (DOMAIN index) \cup keys |->
          IF k \in keys /\ <<ev.start, ev.end>> \notin {now(k)[i] : i \in 1..Len(now(k))}
          THEN Append(now(k), <<ev.start, ev.end>>)
          ELSE now(k)]

\* the index after the appends of one event: one (start, end) under every
\* (g, w, ev.day) with g in ev.groups and w in ev.weeks
IndexAdd(index, ev) ==
    LET keys == {<<g, w, ev.day>> : g \in ev.groups, w \in ev.weeks}
    IN [k \in (DOMAIN index) \cup keys |->
          IF k \in keys
          THEN Append(IndexGet(index, k[1], k[2], k[3]), <<ev.start, ev.end>>)
          ELSE index[k]]

RECURSIVE IndexOfEvents(_, _)
IndexOfEvents(events, index) ==
    IF events = <<>> THEN index
    ELSE IndexOfEvents(Tail(events), IndexAdd(index, Head(events)))

SortIntervals_none(l) == l

\* list.sort() of (start, end) tuples
SortIntervals(l) == StableSort(l, l)

\* Schedule.__init__
Schedule(events) ==
    LET raw == IndexOfEvents(events, <<>>)
    IN [events |-> events,
        index |-> [k \in DOMAIN raw |-> SortIntervals(raw[k])]]

IndexAfterGet_setdefault(index, g, w, d) ==
    [k \in (DOMAIN index) \cup {<<g, w, d>>} |->
       IF k \in DOMAIN index THEN index[k] ELSE <<>>]

\* the index after self.index.get(g, {}).get(w, {}).get(d, []): get with a
\* default adds no key
IndexAfterGet(index, g, w, d) == index

RECURSIVE IndexAfterGets(_, _)
\* the index after the lookups of find_free_slots, one for each (g, w, d) of
\* keys; busy is a list of its own, so its extend, sort and merge do not
\* reach the lists of the index
IndexAfterGets(index, keys) ==
    IF keys = {} THEN index
    ELSE LET k == CHOOSE x \in keys : TRUE
         IN IndexAfterGets(IndexAfterGet(index, k[1], k[2], k[3]), keys \ {k})

\* the Schedule object after a call of find_free_slots
ScheduleAfterFindFreeSlots(sched, groups, weeks, days_allowed) ==
    [events |-> sched.events,
     index |-> IndexAfterGets(sched.index,
                              groups \X SeqRange(weeks) \X SeqRange(days_allowed))]

BusyOf_firstGroup(index, gs, w, d) ==
    IF gs = <<>> THEN <<>> ELSE IndexGet(index, Head(gs), w, d)

RECURSIVE BusyOf(_, _, _, _)
\* busy after "for g in groups: busy.extend(...)", groups in the order gs
BusyOf(index, gs, w, d) ==
    IF gs = <<>> THEN <<>>
    ELSE IndexGet(index, Head(gs), w, d) \o BusyOf(index, Tail(gs), w, d)

Max(a, b) == IF a >= b THEN a ELSE b

MergeStep_appending(merged, iv) == Append(merged, iv)

MergeStep_dropping(merged, iv) ==
    IF merged = <<>> \/ iv[1] >= merged[Len(merged)][2]
    THEN Append(merged, iv)
    ELSE merged

\* one round of the merge loop
MergeStep(merged, iv) ==
    IF merged = <<>> \/ iv[1] >= merged[Len(merged)][2]
    THEN Append(merged, iv)
    ELSE [merged EXCEPT ![Len(merged)] = <<merged[Len(merged)][1],
                                           Max(merged[Len(merged)][2], iv[2])>>]

RECURSIVE Merge(_, _)
Merge(busy, merged) ==
    IF busy = <<>> THEN merged
    ELSE Merge(Tail(busy), MergeStep(merged, Head(busy)))

is_free_first(merged, s_t, e_t) ==
    merged = <<>> \/ ~overlaps(s_t, e_t, merged[1][1], merged[1][2])

is_free(merged, s_t, e_t) ==
    \A i \in 1..Len(merged) : ~overlaps(s_t, e_t, merged[i][1], merged[i][2])

MinutesPerDay == 1440

\* datetime.time() of a datetime given in minutes since today's midnight
TimeOfDay(m) == ((m % MinutesPerDay) + MinutesPerDay) % MinutesPerDay

WindowFits_late(cur, dur, end_dt) == cur <= end_dt

\* the loop condition "cur + dur <= end_dt"
WindowFits(cur, dur, end_dt) == cur + dur <= end_dt

RECURSIVE Slide(_, _, _, _, _, _, _)
\* the while loop from cur on, for a positive step
Slide(merged, w, d, cur, dur, step, end_dt) ==
    IF WindowFits(cur, dur, end_dt)
    THEN LET s == TimeOfDay(cur)
             e == TimeOfDay(cur + dur)
         IN (IF is_free(merged, s, e) THEN <<<<w, d, s, e>>>> ELSE <<>>)
            \o Slide(merged, w, d, cur + step, dur, step, end_dt)
    ELSE <<>>

\* the body of "for d in days_allowed" for one (w, d)
SlotsOfDay(index, gs, w, d, dur, day_window, step) ==
    Slide(Merge(SortIntervals(BusyOf(index, gs, w, d)), <<>>),
          w, d, day_window[1], dur, step, day_window[2])

RECURSIVE SlotsOfDays(_, _, _, _, _, _, _)
SlotsOfDays(index, gs, w, days, dur, day_window, step) ==
    IF days = <<>> THEN <<>>
    ELSE SlotsOfDay(index, gs, w, Head(days), dur, day_window, step)
         \o SlotsOfDays(index, gs, w, Tail(days), dur, day_window, step)

RECURSIVE SlotsOfWeeks(_, _, _, _, _, _, _)
SlotsOfWeeks(index, gs, weeks, days, dur, day_window, step) ==
    IF weeks = <<>> THEN <<>>
    ELSE SlotsOfDays(index, gs, Head(weeks), days, dur, day_window, step)
         \o SlotsOfWeeks(index, gs, Tail(weeks), days, dur, day_window, step)

\* Schedule.find_free_slots; weeks and days_allowed are given as the sequences
\* the two for loops iterate them in.  (The order the set groups is iterated
\* in does not reach the result: busy is sorted.)
find_free_slots(sched, groups, duration_min, weeks, days_allowed, day_window, granularity_min) ==
    SlotsOfWeeks(sched.index, SortedTokens(groups), weeks, days_allowed,
                 duration_min, day_window, granularity_min)

----------------------------------------------------------------------------
(* The state machine: the events table, the last call and what it returned *)

NoResult == [kind |-> "none"]

Init ==
    /\ db = <<>>
    /\ op = [name |-> "init"]
    /\ res = NoResult

\* the calls that hand a result back to the page; the page shows it (Return)
\* before the next button is handled
QueryNames ==
    {"overlaps", "check_conflict_in_db", "single_file_check_conflict_in_db",
     "compute_db_collisions", "compute_teacher_collisions", "find_free_slots",
     "find_free_slots_loop", "Schedule", "sessions"}

Idle == op.name \notin QueryNames

Return ==
    /\ ~Idle
    /\ res.kind # "running"
    /\ op' = [name |-> "idle"]
    /\ res' = NoResult
    /\ UNCHANGED db

BulkInsertEvents ==
    /\ Idle
    /\ \E n \in 1..(MaxEvents - Len(db)) :
         \E df \in [1..n -> UploadRows] :
           LET r == bulk_insert_events(db, df)
           IN /\ db' = r.table
              /\ op' = [name |-> "bulk_insert_events"]
              /\ res' = IF r.ok THEN NoResult ELSE [kind |-> "ValueError"]

EraseAll ==
    /\ Idle
    /\ db' = erase_all(db)
    /\ op' = [name |-> "erase_all"]
    /\ res' = NoResult

EraseBySemester ==
    /\ Idle
    /\ \E semester \in Semesters :
         /\ db' = erase_by_semester(db, semester)
         /\ op' = [name |-> "erase_by_semester"]
         /\ res' = NoResult

\* the time ranges (start, end) of a proposed session: 09-10, 10-11, 09-11,
\* the empty 10-10 and the inverted 11-09
ProposedRanges == {<<540, 600>>, <<600, 660>>, <<540, 660>>, <<600, 600>>, <<660, 540>>}

TeacherArgs == {NoneSet, SomeSet({}), SomeSet({"ANNA"}), SomeSet({"ANNA", "BO"})}

GroupArgs == {{}, {"MTBG"}, {"NGMV"}, {"MTBG", "NGMV"}}

CheckConflictInDb ==
    /\ Idle
    /\ \E semester \in Semesters, groups \in GroupArgs, day \in Days,
          range \in ProposedRanges, week \in Weeks, teachers \in TeacherArgs :
         /\ op' = [name |-> "check_conflict_in_db", semester |-> semester,
                   groups |-> groups, day |-> day, start |-> range[1],
                   end |-> range[2], week |-> week, teachers |-> teachers]
         /\ res' = [kind |-> "list",
                    rows |-> check_conflict_in_db(db, semester, groups, day, range[1],
                                                  range[2], week, teachers)]
         /\ UNCHANGED db

SingleFileCheckConflictInDb ==
    /\ Idle
    /\ \E semester \in Semesters, groups \in GroupArgs, day \in Days,
          range \in ProposedRanges, week \in Weeks :
         /\ op' = [name |-> "single_file_check_conflict_in_db", semester |-> semester,
                   groups |-> groups, day |-> day, start |-> range[1],
                   end |-> range[2], week |-> week]
         /\ res' = [kind |-> "list",
                    rows |-> single_file_check_conflict_in_db(db, groups, day, range[1],
                                                              range[2], week, semester)]
         /\ UNCHANGED db

StoreStep == BulkInsertEvents \/ EraseAll \/ EraseBySemester \/ Return

NextConflict == StoreStep \/ CheckConflictInDb \/ SingleFileCheckConflictInDb

SpecConflict == Init /\ [][NextConflict]_vars

----------------------------------------------------------------------------
(* The two collision report buttons *)

ProgramFilterArgs == {NoneSet, SomeSet({"MTBG"}), SomeSet({"NGMV"})}

DayFilterArgs == {NoneSet, SomeSet({0}), SomeSet({1})}

TeacherFilterArgs == {NoneSet, SomeSet({"ANNA"}), SomeSet({"BO"})}

ComputeDbCollisions_consuming ==
    /\ Idle
    /\ \E semester \in Semesters, programs_filter \in ProgramFilterArgs,
          days_filter \in DayFilterArgs, teacher_filter \in TeacherFilterArgs :
         /\ op' = [name |-> "compute_db_collisions", semester |-> semester,
                   programs_filter |-> programs_filter, days_filter |-> days_filter,
                   teacher_filter |-> teacher_filter]
         /\ res' = compute_db_collisions(db, semester, programs_filter, days_filter,
                                         teacher_filter)
         /\ db' = erase_by_semester(db, semester)

ComputeDbCollisions ==
    /\ Idle
    /\ \E semester \in Semesters, programs_filter \in ProgramFilterArgs,
          days_filter \in DayFilterArgs, teacher_filter \in TeacherFilterArgs :
         /\ op' = [name |-> "compute_db_collisions", semester |-> semester,
                   programs_filter |-> programs_filter, days_filter |-> days_filter,
                   teacher_filter |-> teacher_filter]
         /\ res' = compute_db_collisions(db, semester, programs_filter, days_filter,
                                         teacher_filter)
         /\ UNCHANGED db

ComputeTeacherCollisions ==
    /\ Idle
    /\ \E semester \in Semesters, days_filter \in DayFilterArgs,
          teachers_filter \in TeacherFilterArgs :
         /\ op' = [name |-> "compute_teacher_collisions", semester |-> semester,
                   days_filter |-> days_filter, teachers_filter |-> teachers_filter]
         /\ res' = compute_teacher_collisions(db, semester, days_filter, teachers_filter)
         /\ UNCHANGED db

\* the report button pressed again while its report is on the page: the same
\* call, with the same filters, on the table as it is; op keeps the report of
\* the run before
RerunReport ==
    /\ op.name \in {"compute_db_collisions", "compute_teacher_collisions"}
    /\ op' = [f \in (DOMAIN op) \cup {"previous"} |->
                IF f = "previous" THEN res ELSE op[f]]
    /\ res' = IF op.name = "compute_db_collisions"
              THEN compute_db_collisions(db, op.semester, op.programs_filter,
                                         op.days_filter, op.teacher_filter)
              ELSE compute_teacher_collisions(db, op.semester, op.days_filter,
                                              op.teachers_filter)
    /\ UNCHANGED db

NextCollisions ==
    StoreStep \/ ComputeDbCollisions \/ ComputeTeacherCollisions \/ RerunReport

SpecCollisions == Init /\ [][NextCollisions]_vars

\* the reports over a week's timetable, imported in files of WeekFileRows

MaxFileRows == 4

\* the import button with a file of WeekFileRows
ImportWeekFile ==
    /\ Idle
    /\ \E n \in 1..(MaxFileRows - Len(db)) :
         \E df \in [1..n -> WeekFileRows] :
           LET r == bulk_insert_events(db, df)
           IN /\ db' = r.table
              /\ op' = [name |-> "bulk_insert_events"]
              /\ res' = IF r.ok THEN NoResult ELSE [kind |-> "ValueError"]

NextWeekReports ==
    \/ ImportWeekFile
    \/ EraseAll
    \/ EraseBySemester
    \/ Return
    \/ ComputeDbCollisions
    \/ ComputeTeacherCollisions
    \/ RerunReport

SpecWeekReports == Init /\ [][NextWeekReports]_vars

----------------------------------------------------------------------------
(* The suggestion form: a Schedule of the semester's events, then
   find_free_slots *)

DurationArgs == {-30, 0, 30, 60}

GranularityArgs == {30, 60}

\* 08:00-12:00, 09:30-11:00, the late 23:00-23:30 and the inverted 12:00-08:00
WindowArgs == {<<480, 720>>, <<570, 660>>, <<1380, 1410>>, <<720, 480>>}

WeeksArgs == {<<36, 37>>, <<37, 36>>}

DaysArgs == {<<0, 1>>}

SlotGroupArgs == {{}, {"MTBG"}, {"MTBG", "NGMV"}}

SuggestFreeSlots ==
    /\ Idle
    /\ \E semester \in Semesters :
         LET sched == Schedule(events_from_db_rows(fetch_events_for_semester(db, semester)))
         IN \E groups \in SlotGroupArgs, duration_min \in DurationArgs,
               weeks \in WeeksArgs, days_allowed \in DaysArgs,
               day_window \in WindowArgs, granularity_min \in GranularityArgs :
              /\ op' = [name |-> "find_free_slots", semester |-> semester,
                        groups |-> groups, duration_min |-> duration_min,
                        weeks |-> weeks, days_allowed |-> days_allowed,
                        day_window |-> day_window, granularity_min |-> granularity_min]
              /\ res' = [kind |-> "list",
                         rows |-> find_free_slots(sched, groups, duration_min, weeks,
                                                  days_allowed, day_window,
                                                  granularity_min)]
              /\ UNCHANGED db

NextFreeSlots == StoreStep \/ SuggestFreeSlots

SpecFreeSlots == Init /\ [][NextFreeSlots]_vars

----------------------------------------------------------------------------
(* One Schedule object and the calls of find_free_slots made on it: res holds
   the object as it is now and the calls so far, op the object as built *)

MaxCalls == 2

CallGroupArgs == {{"MTBG"}, {"MTBG", "NGMV"}}

CallGranularityArgs == {30, 60}

\* sched = Schedule(events_from_db_rows(fetch_events_for_semester(semester)))
NewSchedule ==
    /\ Idle
    /\ \E semester \in Semesters :
         LET sched == Schedule(events_from_db_rows(fetch_events_for_semester(db, semester)))
         IN /\ op' = [name |-> "Schedule", semester |-> semester, built |-> sched]
            /\ res' = [kind |-> "schedule", sched |-> sched, calls |-> <<>>]
            /\ UNCHANGED db

\* sched.find_free_slots(..) on the object at hand
ScheduleFindFreeSlots ==
    /\ op.name = "Schedule"
    /\ Len(res.calls) < MaxCalls
    /\ \E groups \in CallGroupArgs, granularity_min \in CallGranularityArgs :
         LET args == [groups |-> groups, duration_min |-> 60, weeks |-> <<36, 37>>,
                      days_allowed |-> <<0, 1>>, day_window |-> <<480, 720>>,
                      granularity_min |-> granularity_min]
             rows == find_free_slots(res.sched, args.groups, args.duration_min,
                                     args.weeks, args.days_allowed, args.day_window,
                                     args.granularity_min)
         IN res' = [res EXCEPT
                      !.sched = ScheduleAfterFindFreeSlots(res.sched, args.groups,
                                                           args.weeks, args.days_allowed),
                      !.calls = Append(@, [args |-> args, rows |-> rows])]
    /\ UNCHANGED <<db, op>>

NextSchedule == StoreStep \/ NewSchedule \/ ScheduleFindFreeSlots

SpecSchedule == Init /\ [][NextSchedule]_vars

----------------------------------------------------------------------------
(* The while loop of find_free_slots, one iteration at a time, for one
   (week, day): res holds cur and cands while the call is running.  A loop
   that has collected MaxScan slots is followed no further. *)

MaxScan == 3

ScanGranularityArgs == {-30, 0, 30}

\* 08:00-09:30 and 09:00-10:30
ScanWindowArgs == {<<480, 570>>, <<540, 630>>}

ScanDuration == 60

\* the call up to "cur = datetime.combine(today, start_bound)": merged is
\* built, cur is at the start of the window, cands is empty
FindFreeSlotsLoopStart ==
    /\ Idle
    /\ \E semester \in Semesters, day_window \in ScanWindowArgs,
          granularity_min \in ScanGranularityArgs :
         LET sched == Schedule(events_from_db_rows(fetch_events_for_semester(db, semester)))
         IN /\ op' = [name |-> "find_free_slots_loop", semester |-> semester,
                      groups |-> {"MTBG"}, duration_min |-> ScanDuration,
                      week |-> 36, day |-> 0,
                      day_window |-> day_window, granularity_min |-> granularity_min]
            /\ res' = [kind |-> "running",
                       merged |-> Merge(SortIntervals(BusyOf(sched.index, <<"MTBG">>, 36, 0)),
                                        <<>>),
                       cur |-> day_window[1], cands |-> <<>>]
            /\ UNCHANGED db

\* one evaluation of "while cur + dur <= end_dt" and, if it holds, one round
\* of the body; else the return of cands
LoopRound ==
    IF WindowFits(res.cur, op.duration_min, op.day_window[2])
    THEN LET s == TimeOfDay(res.cur)
             e == TimeOfDay(res.cur + op.duration_min)
         IN [res EXCEPT !.cur = res.cur + op.granularity_min,
                        !.cands = IF is_free(res.merged, s, e)
                                  THEN Append(res.cands, <<op.week, op.day, s, e>>)
                                  ELSE res.cands]
    ELSE [kind |-> "list", rows |-> res.cands]

FindFreeSlotsLoopStep ==
    /\ op.name = "find_free_slots_loop"
    /\ res.kind = "running"
    /\ Len(res.cands) < MaxScan
    /\ res' = LoopRound
    /\ UNCHANGED <<db, op>>

NextFreeSlotsLoop == StoreStep \/ FindFreeSlotsLoopStart \/ FindFreeSlotsLoopStep

\* the interpreter keeps running the loop of a call that has started
SpecFreeSlotsLoop ==
    Init /\ [][NextFreeSlotsLoop]_vars /\ WF_vars(FindFreeSlotsLoopStep)

----------------------------------------------------------------------------
(* overlaps on its own: every combination of the times below *)

\* 10:00, 11:00, 11:59, 12:00, 14:00
OverlapTimes == {600, 660, 719, 720, 840}

CallOverlaps ==
    /\ Idle
    /\ \E a_start \in OverlapTimes, a_end \in OverlapTimes,
          b_start \in OverlapTimes, b_end \in OverlapTimes :
         /\ op' = [name |-> "overlaps", a_start |-> a_start, a_end |-> a_end,
                   b_start |-> b_start, b_end |-> b_end]
         /\ res' = [kind |-> "bool", value |-> overlaps(a_start, a_end, b_start, b_end)]
         /\ UNCHANGED db

NextOverlaps == CallOverlaps \/ Return

SpecOverlaps == Init /\ [][NextOverlaps]_vars

\* ---- the whole program: every handler ----

\* the maintenance panel, on a table filled from files of ProgramFileRows

MaxProgramRows == 3

ImportProgramFile ==
    /\ Idle
    /\ \E n \in 1..(MaxProgramRows - Len(db)) :
         \E df \in [1..n -> ProgramFileRows] :
           LET r == bulk_insert_events(db, df)
           IN /\ db' = r.table
              /\ op' = [name |-> "bulk_insert_events"]
              /\ res' = IF r.ok THEN NoResult ELSE [kind |-> "ValueError"]

\* "Ta bort valt program": prog_choice is one of list_program_tokens(); op
\* keeps the choice and the table as it was
EraseByProgram ==
    /\ Idle
    /\ \E k \in 1..Len(list_program_tokens(db)) :
         LET prog_choice == list_program_tokens(db)[k]
         IN /\ db' = erase_by_program(db, prog_choice)
            /\ op' = [name |-> "erase_by_program", substr |-> prog_choice,
                      before |-> db]
            /\ res' = NoResult

NextMaintenance ==
    ImportProgramFile \/ EraseByProgram \/ EraseAll \/ EraseBySemester

SpecMaintenance == Init /\ [][NextMaintenance]_vars

----------------------------------------------------------------------------

(* The import button with files that may have faults *)

MaxImportRows == 3
MaxImportFile == 2

\* the row without the columns of drop
WithoutColumns(r, drop) == [c \in (DOMAIN r) \ drop |-> r[c]]

\* op keeps the file and the table as it was
ImportFile ==
    /\ Idle
    /\ \E n \in 1..MaxImportFile :
         \E rows \in [1..n -> ImportRows], drop \in DroppedColumns :
           LET df == [i \in 1..n |-> WithoutColumns(rows[i], drop)]
               r == bulk_insert_events(db, df)
           IN /\ Len(db) + n <= MaxImportRows
              /\ db' = r.table
              /\ op' = [name |-> "bulk_insert_events", df |-> df, before |-> db]
              /\ res' = IF r.ok THEN NoResult ELSE [kind |-> "ValueError"]

NextImport == ImportFile \/ EraseAll

SpecImport == Init /\ [][NextImport]_vars

----------------------------------------------------------------------------
(* Two sessions on one events table.  One writes: bulk_insert_events runs
   executemany inside one transaction ("with .. as con, con:") and commits at
   its end; the erase functions are one DELETE each.  The other calls a
   reader, which fetches the rows of the semester with one SELECT and then
   computes on the rows it got.  op holds both sessions: pc, call, snapshot
   and reads of the reader, txn of the writer, and atRead, the committed table
   at the moment of the reader's SELECT. *)

MaxSessionRows == 3
MaxUpload == 2

SessionFileRows ==
    { UploadRow("S1", <<"MTBG">>, Mon, HHMM(9, 0), HHMM(11, 0), <<<<36>>>>, "HT", <<"ANNA">>),
      UploadRow("S2", <<"MTBG">>, Mon, HHMM(10, 0), HHMM(12, 0), <<<<36>>>>, "HT", <<"ANNA">>) }

ReaderCalls ==
    {"check_conflict_in_db", "compute_db_collisions", "compute_teacher_collisions",
     "find_free_slots"}

NoTxn == [open |-> FALSE, rows |-> <<>>, done |-> 0]

Visible_uncommitted(table, txn) == table \o SubSeq(txn.rows, 1, txn.done)

\* what a SELECT on another connection sees of the table while txn is open:
\* the committed rows
Visible(table, txn) == table

\* the reader's result, computed from the rows its SELECT returned
ResultOnRows(call, rows) ==
    CASE call = "check_conflict_in_db" ->
           [kind |-> "list",
            rows |-> ConflictsOfRows(rows, {"MTBG"}, 0, 540, 660, 36, NoneSet)]
      [] call = "compute_db_collisions" ->
           CollisionReport(ProgramExpansion(rows, NoneSet, NoneSet, NoneSet), FALSE)
      [] call = "compute_teacher_collisions" ->
           CollisionReport(TeacherExpansion(rows, NoneSet, NoneSet), TRUE)
      [] call = "find_free_slots" ->
           [kind |-> "list",
            rows |-> find_free_slots(Schedule(events_from_db_rows(rows)), {"MTBG"},
                                     60, <<36>>, <<0>>, <<480, 720>>, 60)]

OpenSessions ==
    /\ Idle
    /\ op' = [name |-> "sessions", pc |-> "idle", call |-> "none",
              snapshot |-> <<>>, atRead |-> <<>>, reads |-> 0, txn |-> NoTxn]
    /\ res' = NoResult
    /\ UNCHANGED db

InSessions == op.name = "sessions"

\* bulk_insert_events up to the connect: the rows list is built (a file that
\* does not parse raises here, and no transaction is opened)
WriterBegin ==
    /\ InSessions /\ ~op.txn.open
    /\ \E n \in 1..MaxUpload :
         \E df \in [1..n -> SessionFileRows] :
           /\ Len(db) + n <= MaxSessionRows
           /\ bulk_insert_events(<<>>, df).ok
           /\ op' = [op EXCEPT !.txn = [open |-> TRUE,
                                        rows |-> bulk_insert_events(<<>>, df).table,
                                        done |-> 0]]
    /\ UNCHANGED <<db, res>>

\* executemany: the next INSERT of the open transaction
WriterInsert ==
    /\ InSessions /\ op.txn.open /\ op.txn.done < Len(op.txn.rows)
    /\ op' = [op EXCEPT !.txn.done = @ + 1]
    /\ UNCHANGED <<db, res>>

\* leaving "with .. con:": the commit
WriterCommit ==
    /\ InSessions /\ op.txn.open /\ op.txn.done = Len(op.txn.rows)
    /\ db' = db \o op.txn.rows
    /\ op' = [op EXCEPT !.txn = NoTxn]
    /\ UNCHANGED res

WriterEraseAll ==
    /\ InSessions /\ ~op.txn.open
    /\ db' = erase_all(db)
    /\ UNCHANGED <<op, res>>

WriterEraseBySemester ==
    /\ InSessions /\ ~op.txn.open
    /\ \E semester \in Semesters : db' = erase_by_semester(db, semester)
    /\ UNCHANGED <<op, res>>

\* the first statement of every reader: rows = fetch_events_for_semester(..)
ReaderFetch ==
    /\ InSessions /\ op.pc = "idle"
    /\ \E call \in ReaderCalls :
         op' = [op EXCEPT !.pc = "fetched", !.call = call,
                          !.snapshot = fetch_events_for_semester(Visible(db, op.txn), "HT"),
                          !.atRead = db,
                          !.reads = 1]
    /\ res' = NoResult
    /\ UNCHANGED db

\* the rest of the reader, on the rows it fetched
ReaderCompute ==
    /\ InSessions /\ op.pc = "fetched"
    /\ res' = ResultOnRows(op.call, op.snapshot)
    /\ op' = [op EXCEPT !.pc = "done"]
    /\ UNCHANGED db

ReaderReturn ==
    /\ InSessions /\ op.pc = "done"
    /\ op' = [op EXCEPT !.pc = "idle", !.call = "none", !.snapshot = <<>>,
                        !.atRead = <<>>, !.reads = 0]
    /\ res' = NoResult
    /\ UNCHANGED db

NextSessions ==
    \/ OpenSessions
    \/ WriterBegin
    \/ WriterInsert
    \/ WriterCommit
    \/ WriterEraseAll
    \/ WriterEraseBySemester
    \/ ReaderFetch
    \/ ReaderCompute
    \/ ReaderReturn

SpecSessions == Init /\ [][NextSessions]_vars

----------------------------------------------------------------------------

Next ==
    \/ BulkInsertEvents
    \/ ImportFile
    \/ OpenSessions
    \/ WriterBegin
    \/ WriterInsert
    \/ WriterCommit
    \/ WriterEraseAll
    \/ WriterEraseBySemester
    \/ ReaderFetch
    \/ ReaderCompute
    \/ ReaderReturn
    \/ ImportProgramFile
    \/ EraseByProgram
    \/ EraseAll
    \/ EraseBySemester
    \/ CheckConflictInDb
    \/ SingleFileCheckConflictInDb
    \/ ComputeDbCollisions
    \/ ComputeTeacherCollisions
    \/ RerunReport
    \/ ImportWeekFile
    \/ SuggestFreeSlots
    \/ NewSchedule
    \/ ScheduleFindFreeSlots
    \/ FindFreeSlotsLoopStart
    \/ FindFreeSlotsLoopStep
    \/ CallOverlaps
    \/ Return

Spec == Init /\ [][Next]_vars

----------------------------------------------------------------------------
(* Properties *)

\* C1: overlaps(aStart, aEnd, bStart, bEnd) is true exactly when
\* aStart < bEnd and bStart < aEnd, for every input (start >= end included),
\* and it is false whenever aEnd = bStart or bEnd = aStart.
C1_OverlapsExact ==
    op.name = "overlaps" =>
      /\ res.value <=> (op.a_start < op.b_end /\ op.b_start < op.a_end)
      /\ (op.a_end = op.b_start \/ op.b_end = op.a_start) => ~res.value

\* 10:00-12:00 against 12:00-14:00 has been evaluated and is no overlap
C1_Witness ==
    /\ op.name = "overlaps"
    /\ op.a_start = 600 /\ op.a_end = 720 /\ op.b_start = 720 /\ op.b_end = 840
    /\ res.value = FALSE

\* 10:00-12:00 against 11:59-14:00 has been evaluated and is an overlap
C1_WitnessTrue ==
    /\ op.name = "overlaps"
    /\ op.a_start = 600 /\ op.a_end = 720 /\ op.b_start = 719 /\ op.b_end = 840
    /\ res.value = TRUE


IsConflictCall == op.name = "check_conflict_in_db"

\* the proposed teachers, None counting as no teacher
ProposedTeachers == IF op.teachers.isNone THEN {} ELSE op.teachers.set

\* C2: check_conflict_in_db returns exactly the stored events of the semester
\* that are on the day, cover the week, share a group or a teacher with the
\* proposal and truly overlap it: none is omitted, no other is reported.
C2_ConflictsExact ==
    IsConflictCall =>
      LET hit(r) ==
            LET ev == EventView(r)
            IN /\ r.semester = op.semester
               /\ ev.day = op.day
               /\ op.week \in ev.weeks
               /\ \/ (op.groups \cap ev.groups) # {}
                  \/ (ProposedTeachers \cap ev.teachers) # {}
               /\ overlaps(ev.start, ev.end, op.start, op.end)
          sel == SelectSeq(db, hit)
      IN res.rows = [i \in 1..Len(sel) |-> ConflictRecord(sel[i], op.week)]

\* a call has reported one stored event and left out another one
C2_Witness ==
    /\ IsConflictCall
    /\ Len(db) = 2
    /\ Len(res.rows) = 1

\* C7: a stored event whose groups and teachers are both disjoint from the
\* proposal's is never reported, even with the proposal's day, week and times.
\* (Rows of one course code are copies of one another in this model, so a
\* record names its row.)
C7_SharedDimensionNeeded ==
    IsConflictCall =>
      \A i \in 1..Len(db) :
        LET ev == EventView(db[i])
        IN ((op.groups \cap ev.groups) = {} /\ (ProposedTeachers \cap ev.teachers) = {})
             => ConflictRecord(db[i], op.week) \notin SeqRange(res.rows)

\* a stored event with the proposal's semester, day, week and time range and
\* nothing in common with it has been checked
C7_Witness ==
    /\ IsConflictCall
    /\ op.groups # {} /\ ProposedTeachers # {}
    /\ \E i \in 1..Len(db) :
         LET ev == EventView(db[i])
         IN /\ db[i].semester = op.semester /\ ev.day = op.day
            /\ op.week \in ev.weeks
            /\ ev.start = op.start /\ ev.end = op.end /\ ev.start < ev.end
            /\ ev.groups # {}
            /\ (op.groups \cap ev.groups) = {}
            /\ (ProposedTeachers \cap ev.teachers) = {}
            /\ ConflictRecord(db[i], op.week) \notin SeqRange(res.rows)

\* C8: a stored event whose weeks do not contain the query week is never
\* reported, whatever its day, groups, teachers and time range; in
\* conflicts.py and in the single-file variant alike.
C8_WeekMembershipNeeded ==
    /\ IsConflictCall =>
         \A i \in 1..Len(db) :
           op.week \notin EventView(db[i]).weeks
             => ConflictRecord(db[i], op.week) \notin SeqRange(res.rows)
    /\ op.name = "single_file_check_conflict_in_db" =>
         \A i \in 1..Len(db) :
           op.week \notin EventView(db[i]).weeks
             => SingleFileConflictRecord(db[i], op.week) \notin SeqRange(res.rows)

\* a stored event that shares a group with the proposal and overlaps it on its
\* day, in another week only, has been checked
C8_Witness ==
    /\ IsConflictCall
    /\ \E i \in 1..Len(db) :
         LET ev == EventView(db[i])
         IN /\ db[i].semester = op.semester /\ ev.day = op.day
            /\ op.week \notin ev.weeks
            /\ (op.groups \cap ev.groups) # {}
            /\ overlaps(ev.start, ev.end, op.start, op.end)
            /\ ConflictRecord(db[i], op.week) \notin SeqRange(res.rows)

\* the same in the single-file variant
C8_WitnessSingleFile ==
    /\ op.name = "single_file_check_conflict_in_db"
    /\ \E i \in 1..Len(db) :
         LET ev == EventView(db[i])
         IN /\ db[i].semester = op.semester /\ ev.day = op.day
            /\ op.week \notin ev.weeks
            /\ (op.groups \cap ev.groups) # {}
            /\ overlaps(ev.start, ev.end, op.start, op.end)
            /\ SingleFileConflictRecord(db[i], op.week) \notin SeqRange(res.rows)

\* C9: a stored event of the semester on the proposal's day and week that truly
\* overlaps it is reported when it shares a teacher, even if the proposed
\* groups are empty or disjoint from its groups, and when it shares a group,
\* even if no teachers are proposed.
C9_GroupOrTeacher ==
    IsConflictCall =>
      \A i \in 1..Len(db) :
        LET ev == EventView(db[i])
        IN (/\ db[i].semester = op.semester /\ ev.day = op.day
            /\ op.week \in ev.weeks
            /\ overlaps(ev.start, ev.end, op.start, op.end)
            /\ \/ (ProposedTeachers \cap ev.teachers) # {}
                    /\ (op.groups \cap ev.groups) = {}
               \/ (op.groups \cap ev.groups) # {} /\ ProposedTeachers = {})
           => ConflictRecord(db[i], op.week) \in SeqRange(res.rows)

\* an event reported for its teacher alone, with no group proposed
C9_Witness ==
    /\ IsConflictCall
    /\ op.groups = {}
    /\ \E i \in 1..Len(db) :
         /\ (ProposedTeachers \cap EventView(db[i]).teachers) # {}
         /\ ConflictRecord(db[i], op.week) \in SeqRange(res.rows)

\* an event reported for its group alone, with no teacher proposed
C9_WitnessGroup ==
    /\ IsConflictCall
    /\ op.teachers.isNone
    /\ \E i \in 1..Len(db) :
         /\ (op.groups \cap EventView(db[i]).groups) # {}
         /\ ConflictRecord(db[i], op.week) \in SeqRange(res.rows)


IsCollisionCall ==
    op.name \in {"compute_db_collisions", "compute_teacher_collisions"}

\* the tokens a report groups a stored row by
ReportTokens(r) ==
    IF op.name = "compute_db_collisions" THEN EventView(r).groups
    ELSE EventView(r).teachers

\* the stored row is in the pool of the report: its semester, and its filters
InReportPool(r) ==
    LET ev == EventView(r)
        setOk(flt, S) == flt.isNone \/ flt.set = {} \/ (flt.set \cap S) # {}
    IN /\ r.semester = op.semester
       /\ op.days_filter.isNone \/ ev.day \in op.days_filter.set
       /\ IF op.name = "compute_db_collisions"
          THEN setOk(op.programs_filter, ev.groups) /\ setOk(op.teacher_filter, ev.teachers)
          ELSE setOk(op.teachers_filter, ev.teachers)

\* two events of the pool truly overlap in some (token, week, day) bucket
SomeTrueOverlap ==
    \E i, j \in 1..Len(db) :
      LET a == EventView(db[i])
          b == EventView(db[j])
      IN /\ i # j
         /\ InReportPool(db[i]) /\ InReportPool(db[j])
         /\ a.day = b.day
         /\ (ReportTokens(db[i]) \cap ReportTokens(db[j])) # {}
         /\ (a.weeks \cap b.weeks) # {}
         /\ overlaps(a.start, a.end, b.start, b.end)

\* C5: with a non-empty pool after the filters and no two events that truly
\* overlap in any (token, week, day) bucket, compute_db_collisions and
\* compute_teacher_collisions return an empty report; they raise no error.
C5_EmptyReportIsNormal ==
    (/\ IsCollisionCall
     /\ \E i \in 1..Len(db) : InReportPool(db[i])
     /\ ~SomeTrueOverlap)
      => res = [kind |-> "frame", rows |-> <<>>]

\* the stored event a side of a pair record names
IsSide(r, c, kurskod, start, slut, other) ==
    LET ev == EventView(r)
    IN /\ r.semester = c.termin
       /\ c.token \in ev.groups
       /\ c.veckonummer \in ev.weeks
       /\ INT_TO_DAY(ev.day) = c.veckodag
       /\ r.course = kurskod
       /\ time_to_str(ev.start) = start /\ time_to_str(ev.end) = slut
       /\ SortedTokens(ev.teachers) = other

\* C6: every pair record of compute_db_collisions for (program p, week w,
\* weekday d) names two different stored events that both carry p, cover w,
\* fall on d, and whose time ranges overlap; so a program carried by one event
\* only in a (week, day) is in no record.
C6_CollisionReportSound ==
    (op.name = "compute_db_collisions" /\ res.kind = "frame") =>
      \A k \in 1..Len(res.rows) :
        LET c == res.rows[k]
        IN /\ \E i, j \in 1..Len(db) :
                /\ i # j
                /\ IsSide(db[i], c, c.kurskod_1, c.start_1, c.slut_1, c.other_1)
                /\ IsSide(db[j], c, c.kurskod_2, c.start_2, c.slut_2, c.other_2)
           /\ overlaps(parse_time_str(c.start_1), parse_time_str(c.slut_1),
                       parse_time_str(c.start_2), parse_time_str(c.slut_2))
           /\ Cardinality({i \in 1..Len(db) :
                             /\ db[i].semester = c.termin
                             /\ c.token \in EventView(db[i]).groups
                             /\ c.veckonummer \in EventView(db[i]).weeks
                             /\ INT_TO_DAY(db[i].day) = c.veckodag}) >= 2

\* scenario B: MTBG 09-11 and MTBG;NGMV 10-12 on the Monday of week 36 give
\* one pair, for MTBG, and none for NGMV
C6_Witness ==
    /\ op.name = "compute_db_collisions"
    /\ op.programs_filter.isNone /\ op.days_filter.isNone /\ op.teacher_filter.isNone
    /\ Len(db) = 2
    /\ EventView(db[1]).groups = {"MTBG"}
    /\ EventView(db[2]).groups = {"MTBG", "NGMV"}
    /\ res.kind = "frame"
    /\ Len(res.rows) = 1
    /\ res.rows[1].token = "MTBG" /\ res.rows[1].veckonummer = 36
    /\ res.rows[1].veckodag = "Man"
    /\ res.rows[1].start_1 = HHMM(9, 0) /\ res.rows[1].slut_1 = HHMM(11, 0)
    /\ res.rows[1].start_2 = HHMM(10, 0) /\ res.rows[1].slut_2 = HHMM(12, 0)


IsFreeSlotCall == op.name = "find_free_slots"

\* the index of the Schedule the call was made on
CallIndex ==
    Schedule(events_from_db_rows(fetch_events_for_semester(db, op.semester))).index

\* the busy intervals the index holds for the queried groups at (w, d)
QueriedBusy(w, d) ==
    UNION {SeqRange(IndexGet(CallIndex, g, w, d)) : g \in op.groups}

\* C3: for every (week, day, start, end) returned by find_free_slots, no
\* interval of index[g][week][day], for any queried group g, overlaps
\* [start, end): the slot is free for all queried groups at once.
C3_FreeSlotExclusive ==
    IsFreeSlotCall =>
      \A k \in 1..Len(res.rows) :
        LET slot == res.rows[k]
        IN \A iv \in QueriedBusy(slot[1], slot[2]) :
             ~overlaps(slot[3], slot[4], iv[1], iv[2])

\* slots were returned for a (week, day) on which two queried groups are busy
\* at different times, and a candidate of the window was left out
C3_Witness ==
    /\ IsFreeSlotCall
    /\ op.groups = {"MTBG", "NGMV"}
    /\ op.duration_min = 60 /\ op.day_window = <<480, 720>>
    /\ op.granularity_min = 30
    /\ IndexGet(CallIndex, "MTBG", 36, 0) # <<>>
    /\ IndexGet(CallIndex, "NGMV", 36, 0) # <<>>
    /\ IndexGet(CallIndex, "MTBG", 36, 0) # IndexGet(CallIndex, "NGMV", 36, 0)
    /\ \E k \in 1..Len(res.rows) : res.rows[k][1] = 36 /\ res.rows[k][2] = 0
    /\ <<36, 0, 540, 600>> \notin SeqRange(res.rows)

\* the candidates of the window: windowStart + k * granularity, k = 0, 1, ..
\* with start + duration <= windowEnd
WindowCandidates ==
    {s \in {op.day_window[1] + k * op.granularity_min :
              k \in 0..Max(0, op.day_window[2] - op.day_window[1])} :
       s + op.duration_min <= op.day_window[2]}

\* C4: for positive duration and granularity, the slots returned for one
\* (week, day) are exactly the candidates windowStart + k * granularity with
\* start + duration <= windowEnd that overlap no busy interval of any queried
\* group, each once; a candidate that only touches a busy interval is returned.
C4_FreeSlotComplete ==
    (IsFreeSlotCall /\ op.duration_min > 0 /\ op.granularity_min > 0) =>
      \A w \in SeqRange(op.weeks), d \in SeqRange(op.days_allowed) :
        LET got == SelectSeq(res.rows, LAMBDA slot : slot[1] = w /\ slot[2] = d)
            want == {<<w, d, s, s + op.duration_min>> : s \in
                       {c \in WindowCandidates :
                          \A iv \in QueriedBusy(w, d) :
                            ~(c < iv[2] /\ iv[1] < c + op.duration_min)}}
        IN /\ SeqRange(got) = want
           /\ Len(got) = Cardinality(want)

\* window 08:00-12:00, duration 60, granularity 30 and the one busy interval
\* 09:00-10:00 give the starts 08:00, 10:00, 10:30 and 11:00
C4_Witness ==
    /\ IsFreeSlotCall
    /\ op.groups = {"MTBG"} /\ op.duration_min = 60
    /\ op.day_window = <<480, 720>> /\ op.granularity_min = 30
    /\ IndexGet(CallIndex, "MTBG", 36, 0) = <<<<540, 600>>>>
    /\ {res.rows[k][3] : k \in {i \in 1..Len(res.rows) :
                                  res.rows[i][1] = 36 /\ res.rows[i][2] = 0}}
         = {480, 600, 630, 660}

\* C10: for positive duration and granularity, every returned slot has
\* start >= windowStart, end <= windowEnd and end - start = durationMinutes.
C10_FreeSlotFit ==
    (IsFreeSlotCall /\ op.duration_min > 0 /\ op.granularity_min > 0) =>
      \A k \in 1..Len(res.rows) :
        /\ res.rows[k][3] >= op.day_window[1]
        /\ res.rows[k][4] <= op.day_window[2]
        /\ res.rows[k][4] - res.rows[k][3] = op.duration_min

\* a slot that ends exactly at the end of the window has been returned
C10_Witness ==
    /\ IsFreeSlotCall /\ op.duration_min > 0 /\ op.granularity_min > 0
    /\ \E k \in 1..Len(res.rows) : res.rows[k][4] = op.day_window[2]

\* the call has one of the malformed ranges: a non-positive duration or a day
\* window that is empty or inverted
MalformedRange ==
    op.duration_min <= 0 \/ op.day_window[1] >= op.day_window[2]

\* C11: find_free_slots called with durationMinutes <= 0 or with
\* windowStart >= windowEnd ends in an InvalidArgument error; it returns no
\* list, empty or otherwise.
C11_MalformedRangeRejected ==
    (IsFreeSlotCall /\ MalformedRange) => res.kind = "InvalidArgument"

IsFreeSlotLoop == op.name = "find_free_slots_loop"

\* for a positive granularity the loop returns what find_free_slots returns
\* for the one week and day
LoopAgreesWithFindFreeSlots ==
    (IsFreeSlotLoop /\ op.granularity_min > 0 /\ res.kind = "list") =>
      res.rows = find_free_slots(
                   Schedule(events_from_db_rows(fetch_events_for_semester(db, op.semester))),
                   op.groups, op.duration_min, <<op.week>>, <<op.day>>,
                   op.day_window, op.granularity_min)

\* C12: find_free_slots called with granularityMinutes <= 0 terminates: its
\* candidate-window loop does not go on for ever without reaching windowEnd.
\* (As specified, the call ends at once, in an InvalidArgument error.  A loop
\* that has collected MaxScan slots counts as having gone far enough here.)
C12_NonPositiveGranularityEnds ==
    (IsFreeSlotLoop /\ op.granularity_min <= 0 /\ res.kind = "running")
      ~> (res.kind # "running" \/ Len(res.cands) >= MaxScan)

\* the day number 0..6 (Monday = 0) of a weekday label of the report
CalendarDay(label) == CHOOSE d \in 0..6 : INT_TO_DAY(d) = label

\* grouping token, week, weekday in calendar order, start of side 1, start of
\* side 2
CalendarOrderKey(c) ==
    <<TokenRank(c.token), c.veckonummer, CalendarDay(c.veckodag),
      parse_time_str(c.start_1), parse_time_str(c.start_2)>>

\* C13: the rows of a collision report are ordered by grouping token, then
\* week number, then weekday in calendar order (Monday first, Sunday last),
\* then start time of side 1, then start time of side 2.
C13_ReportInCalendarOrder ==
    (IsCollisionCall /\ res.kind = "frame") =>
      \A k, l \in 1..Len(res.rows) :
        k < l => ~LexLess(CalendarOrderKey(res.rows[l]), CalendarOrderKey(res.rows[k]))

\* the report on the page is that of a second run
IsRerun == IsCollisionCall /\ "previous" \in DOMAIN op

IsScheduleObject == op.name = "Schedule"

\* C15: after the construction of a Schedule from any list of events, in any
\* order, every interval list index[g][w][d] is sorted by start time
\* ascending.
C15_IndexSorted ==
    IsScheduleObject =>
      \A key \in DOMAIN op.built.index :
        \A i, j \in 1..Len(op.built.index[key]) :
          i < j => op.built.index[key][i][1] <= op.built.index[key][j][1]

\* the events were given with the later session first, and the index has
\* both under one key
C15_Witness ==
    /\ IsScheduleObject
    /\ Len(op.built.events) = 2
    /\ op.built.events[1].start > op.built.events[2].start
    /\ \E key \in DOMAIN op.built.index : Len(op.built.index[key]) = 2

\* the candidates of the window of a call: windowStart + k * granularity with
\* start + duration <= windowEnd
CandidatesOf(args) ==
    {s \in {args.day_window[1] + k * args.granularity_min :
              k \in 0..Max(0, args.day_window[2] - args.day_window[1])} :
       s + args.duration_min <= args.day_window[2]}

\* C16: index[g][w][d] holds exactly one (start, end) entry for each event
\* with g in its groups, w in its weeks and day = d, duplicates kept and
\* nothing else added; an event with no groups has no entry under any key, so
\* it blocks no free slot.
C16_IndexContent ==
    IsScheduleObject =>
      LET events == op.built.events
          index == op.built.index
      IN /\ \A g \in Programs, w \in Weeks, d \in Days :
              LET entries == IndexGet(index, g, w, d)
                  of(iv) == {i \in 1..Len(events) :
                               /\ g \in events[i].groups
                               /\ w \in events[i].weeks
                               /\ events[i].day = d
                               /\ <<events[i].start, events[i].end>> = iv}
              IN \A iv \in SeqRange(entries) \cup
                           {<<events[i].start, events[i].end>> : i \in 1..Len(events)} :
                   Cardinality({k \in 1..Len(entries) : entries[k] = iv})
                     = Cardinality(of(iv))
         /\ DOMAIN index \subseteq Programs \X Weeks \X Days
         /\ (\A i \in 1..Len(events) : events[i].groups = {})
              => /\ DOMAIN index = {}
                 /\ \A c \in 1..Len(res.calls) :
                      LET args == res.calls[c].args
                      IN \A w \in SeqRange(args.weeks), d \in SeqRange(args.days_allowed),
                            s \in CandidatesOf(args) :
                           <<w, d, s, s + args.duration_min>> \in SeqRange(res.calls[c].rows)

\* the same session was given twice: its interval is in the index twice
C16_Witness ==
    /\ IsScheduleObject
    /\ Len(op.built.events) = 2
    /\ op.built.events[1] = op.built.events[2]
    /\ \E key \in DOMAIN op.built.index :
         /\ Len(op.built.index[key]) = 2
         /\ op.built.index[key][1] = op.built.index[key][2]

\* the only event has no groups, and a call has returned slots
C16_WitnessNoGroups ==
    /\ IsScheduleObject
    /\ Len(op.built.events) = 1
    /\ op.built.events[1].groups = {}
    /\ Len(res.calls) >= 1
    /\ res.calls[1].rows # <<>>

DayPlace(d) == CHOOSE i \in 1..Len(op.days_allowed) : op.days_allowed[i] = d

\* C18: the list returned by find_free_slots is in chronological order:
\* ascending week number first, then day in the order daysAllowed is
\* iterated, then ascending time of day.
C18_ChronologicalOrder ==
    IsFreeSlotCall =>
      \A k, l \in 1..Len(res.rows) :
        k < l => ~LexLess(<<res.rows[l][1], DayPlace(res.rows[l][2]), res.rows[l][3]>>,
                          <<res.rows[k][1], DayPlace(res.rows[k][2]), res.rows[k][3]>>)

\* two rows of the result are of the same (week, day)
SameDay(i, j) ==
    res.rows[i][1] = res.rows[j][1] /\ res.rows[i][2] = res.rows[j][2]

\* C19: in the result of find_free_slots the slots of one (week, day) form
\* one contiguous block and, for positive granularity, are in strictly
\* ascending start time within the block.
C19_BlocksAscending ==
    (IsFreeSlotCall /\ op.granularity_min > 0) =>
      /\ \A i, j \in 1..Len(res.rows) :
           (i < j /\ SameDay(i, j)) => SameDay(i, i + 1)
      /\ \A i \in 1..(Len(res.rows) - 1) :
           SameDay(i, i + 1) => res.rows[i][3] < res.rows[i + 1][3]

\* C20: in the teacher report an event with no teacher is in no pair: no
\* pair record has the empty teacher token, both sides of a record are events
\* that have the record's teacher, and two overlapping events that both have
\* no teacher are not reported as colliding.
C20_NoTeacherNoPair ==
    (op.name = "compute_teacher_collisions" /\ res.kind = "frame") =>
      \A k \in 1..Len(res.rows) :
        LET c == res.rows[k]
        IN /\ c.token # ""
           /\ \E i, j \in 1..Len(db) :
                /\ i # j
                /\ db[i].course = c.kurskod_1 /\ c.token \in EventView(db[i]).teachers
                /\ db[j].course = c.kurskod_2 /\ c.token \in EventView(db[j]).teachers

\* the teacher report was run, without filters, over two overlapping events
\* of one day and week that both have no teacher
C20_Witness ==
    /\ op.name = "compute_teacher_collisions"
    /\ op.days_filter.isNone /\ op.teachers_filter.isNone
    /\ Len(db) = 2
    /\ db[1].semester = op.semester /\ db[2].semester = op.semester
    /\ EventView(db[1]).teachers = {} /\ EventView(db[2]).teachers = {}
    /\ EventView(db[1]).day = EventView(db[2]).day
    /\ (EventView(db[1]).weeks \cap EventView(db[2]).weeks) # {}
    /\ overlaps(EventView(db[1]).start, EventView(db[1]).end,
                EventView(db[2]).start, EventView(db[2]).end)
    /\ res.kind = "frame" => res.rows = <<>>

\* C21: overlaps is symmetric: overlaps(a, b, c, d) = overlaps(c, d, a, b)
\* for all inputs.
C21_OverlapsSymmetric ==
    op.name = "overlaps" =>
      res.value = overlaps(op.b_start, op.b_end, op.a_start, op.a_end)

\* 11:00-14:00 against 10:00-12:00, the later interval first, is an overlap
C21_Witness ==
    /\ op.name = "overlaps"
    /\ op.a_start = 660 /\ op.a_end = 840 /\ op.b_start = 600 /\ op.b_end = 720
    /\ res.value = TRUE

IsRunningLoop == IsFreeSlotLoop /\ res.kind = "running"

LoopBusy ==
    SeqRange(IndexGet(Schedule(events_from_db_rows(
                        fetch_events_for_semester(db, op.semester))).index,
                      "MTBG", op.week, op.day))

C22_WitnessMerged ==
    /\ IsRunningLoop
    /\ LoopBusy = {<<540, 660>>, <<600, 720>>}
    /\ res.merged = <<<<540, 720>>>>

\* exp_rows / exp of the report call in op, on the table as it is
OpExpansion ==
    IF op.name = "compute_db_collisions"
    THEN ProgramExpansion(fetch_events_for_semester(db, op.semester),
                          op.programs_filter, op.days_filter, op.teacher_filter)
    ELSE TeacherExpansion(fetch_events_for_semester(db, op.semester),
                          op.days_filter, op.teachers_filter)

\* the groups the report scans: every key of the expansion, but for the
\* teacher report the keys of the empty teacher
OpKeys ==
    {k \in {KeyOf(OpExpansion[i]) : i \in 1..Len(OpExpansion)} :
       op.name = "compute_teacher_collisions" => k[2] # ""}

\* the rows of one group, as the expansion has them
GroupRows(key) == SelectSeq(OpExpansion, LAMBDA e : InBucket(e, key))

\* the unordered pairs of distinct rows of a group whose times overlap
OverlappingPairs(g) ==
    {p \in (1..Len(g)) \X (1..Len(g)) :
       /\ p[1] < p[2]
       /\ overlaps(parse_time_str(g[p[1]].start), parse_time_str(g[p[1]].slut),
                   parse_time_str(g[p[2]].start), parse_time_str(g[p[2]].slut))}

\* the record of a pair, whichever of its rows comes first
RecordsOfPair(key, g, p) ==
    {PairRecord(key, g[p[1]], g[p[2]]), PairRecord(key, g[p[2]], g[p[1]])}

\* the pair records a report call emitted (none when it ended in the KeyError)
EmittedRows == IF res.kind = "frame" THEN res.rows ELSE <<>>

C23_WitnessExit ==
    /\ op.name = "compute_db_collisions"
    /\ \E key \in OpKeys :
         /\ Len(GroupRows(key)) = 2
         /\ GroupRows(key)[1].slut = GroupRows(key)[2].start
         /\ OverlappingPairs(GroupRows(key)) = {}
    /\ EmittedRows = <<>>

\* the token filter of the report call in op: programs_filter of the program
\* report, teachers_filter of the teacher report
OpTokenFilter ==
    IF op.name = "compute_db_collisions" THEN op.programs_filter
    ELSE op.teachers_filter

\* C24: with a non-empty programs_filter the program token of every pair
\* record of compute_db_collisions is a member of programs_filter, and with a
\* non-empty teachers_filter the teacher token of every pair record of
\* compute_teacher_collisions is a member of teachers_filter.
C24_OnlyFilteredTokens ==
    (IsCollisionCall /\ Truthy(OpTokenFilter)) =>
      \A k \in 1..Len(EmittedRows) : EmittedRows[k].token \in OpTokenFilter.set

\* C25: erase_by_program(P), with P one of list_program_tokens(), deletes
\* exactly the stored events whose program token set contains P; every event
\* that does not carry the token P, one that carries only a longer token with
\* P inside it included, is left as it was.
C25_EraseByProgramExact ==
    op.name = "erase_by_program" =>
      db = SelectSeq(op.before, LAMBDA r : op.substr \notin SeqRange(r.groups))

IsUnfilteredProgramReport ==
    /\ op.name = "compute_db_collisions"
    /\ op.programs_filter.isNone /\ op.days_filter.isNone /\ op.teacher_filter.isNone

\* two different stored events of the semester of the report, on the same day
\* and with overlapping times
TrulyOverlapping(i, j) ==
    /\ i # j
    /\ db[i].semester = op.semester /\ db[j].semester = op.semester
    /\ db[i].day = db[j].day
    /\ overlaps(EventView(db[i]).start, EventView(db[i]).end,
                EventView(db[j]).start, EventView(db[j]).end)

\* what a pair record shows of a stored event
SideOf(r) ==
    [kurskod |-> r.course, start |-> r.start, slut |-> r.end,
     other |-> SortedTokens(parse_program(r.teacher))]

\* the pair record c has the stored events r1 and r2 as its two sides
NamesPair(c, r1, r2) ==
    LET s1 == [kurskod |-> c.kurskod_1, start |-> c.start_1, slut |-> c.slut_1,
               other |-> c.other_1]
        s2 == [kurskod |-> c.kurskod_2, start |-> c.start_2, slut |-> c.slut_2,
               other |-> c.other_2]
    IN /\ c.veckodag = INT_TO_DAY(r1.day)
       /\ \/ s1 = SideOf(r1) /\ s2 = SideOf(r2)
          \/ s1 = SideOf(r2) /\ s2 = SideOf(r1)

\* the pairs of stored events a record of r1 and r2 could as well come from
LookAlikes(i, j) ==
    {q \in (1..Len(db)) \X (1..Len(db)) :
       /\ q[1] < q[2]
       /\ TrulyOverlapping(q[1], q[2])
       /\ db[q[1]].day = db[i].day
       /\ {SideOf(db[q[1]]), SideOf(db[q[2]])} = {SideOf(db[i]), SideOf(db[j])}}

\* C26: without filters, two distinct stored events on the same day with
\* overlapping times that share m program tokens and n week numbers have
\* exactly m*n pair records in compute_db_collisions, one for each shared
\* (program, week); no (program, week) has the pair twice.
C26_PairRecordCount ==
    IsUnfilteredProgramReport =>
      \A i, j \in 1..Len(db) :
        (i < j /\ TrulyOverlapping(i, j)) =>
          LET a == EventView(db[i])
              b == EventView(db[j])
              mine == {k \in 1..Len(EmittedRows) : NamesPair(EmittedRows[k], db[i], db[j])}
          IN /\ \A p \in a.groups \cap b.groups, w \in a.weeks \cap b.weeks :
                  Cardinality({k \in mine : /\ EmittedRows[k].token = p
                                            /\ EmittedRows[k].veckonummer = w})
                    = Cardinality({q \in LookAlikes(i, j) :
                                     /\ p \in EventView(db[q[1]]).groups
                                     /\ p \in EventView(db[q[2]]).groups
                                     /\ w \in EventView(db[q[1]]).weeks
                                     /\ w \in EventView(db[q[2]]).weeks})
             /\ LookAlikes(i, j) = {<<i, j>>} =>
                  Cardinality(mine) = Cardinality(a.groups \cap b.groups)
                                        * Cardinality(a.weeks \cap b.weeks)

\* two events for MTBG and NGMV in weeks 36 and 37, Monday 10-12: m = 2,
\* n = 2, and the report has four records
C26_Witness ==
    /\ IsUnfilteredProgramReport
    /\ Len(db) = 2
    /\ TrulyOverlapping(1, 2)
    /\ EventView(db[1]).groups \cap EventView(db[2]).groups = {"MTBG", "NGMV"}
    /\ EventView(db[1]).weeks \cap EventView(db[2]).weeks = {36, 37}
    /\ res.kind = "frame" /\ Len(res.rows) = 4

\* MTBG 09-11 in week 36 and MTBG;NGMV 10-12 in weeks 36-37: m = 1, n = 1
C26_WitnessOne ==
    /\ IsUnfilteredProgramReport
    /\ Len(db) = 2
    /\ db[1].course = "K3" /\ db[2].course = "K4"
    /\ res.kind = "frame" /\ Len(res.rows) = 1

\* the result of a reader on the table, by the functions of the program
ResultOnStore(call, table) ==
    CASE call = "check_conflict_in_db" ->
           [kind |-> "list",
            rows |-> check_conflict_in_db(table, "HT", {"MTBG"}, 0, 540, 660, 36, NoneSet)]
      [] call = "compute_db_collisions" ->
           compute_db_collisions(table, "HT", NoneSet, NoneSet, NoneSet)
      [] call = "compute_teacher_collisions" ->
           compute_teacher_collisions(table, "HT", NoneSet, NoneSet)
      [] call = "find_free_slots" ->
           [kind |-> "list",
            rows |-> find_free_slots(
                       Schedule(events_from_db_rows(fetch_events_for_semester(table, "HT"))),
                       {"MTBG"}, 60, <<36>>, <<0>>, <<480, 720>>, 60)]

C27_WitnessMidUpload ==
    /\ InSessions /\ op.pc = "fetched"
    /\ op.txn.open /\ op.txn.done = 1 /\ Len(op.txn.rows) = 2
    /\ op.snapshot = db

\* check_conflict_in_db for a session of the queried groups at the place of
\* the slot, with no teachers, on the table the Schedule was built from
ConflictsAt(week, day, start, end) ==
    check_conflict_in_db(db, op.semester, op.groups, day, start, end, week, NoneSet)

\* C28: for every slot (week, day, start, end) that find_free_slots(groups,
\* ..) returns with a positive duration, check_conflict_in_db on the same
\* events with the same groups, day, start, end and week and no teachers
\* returns the empty list.
C28_FreeSlotHasNoConflict ==
    (IsFreeSlotCall /\ op.duration_min > 0) =>
      \A k \in 1..Len(res.rows) :
        ConflictsAt(res.rows[k][1], res.rows[k][2], res.rows[k][3], res.rows[k][4]) = <<>>

\* MTBG and NGMV are queried, each is busy on the Monday of week 36, slots
\* of that Monday are returned, and the hour 10-11, which is not among them,
\* has a conflict
C28_Witness ==
    /\ IsFreeSlotCall
    /\ op.groups = {"MTBG", "NGMV"}
    /\ op.duration_min = 60 /\ op.day_window = <<480, 720>>
    /\ IndexGet(CallIndex, "MTBG", 36, 0) # <<>>
    /\ IndexGet(CallIndex, "NGMV", 36, 0) # <<>>
    /\ \E k \in 1..Len(res.rows) : res.rows[k][1] = 36 /\ res.rows[k][2] = 0
    /\ <<36, 0, 600, 660>> \notin SeqRange(res.rows)
    /\ ConflictsAt(36, 0, 600, 660) # <<>>

\* the report has a pair record of the stored events i and j for week w
ReportHasPair(i, j, w) ==
    \E k \in 1..Len(EmittedRows) :
      /\ EmittedRows[k].veckonummer = w
      /\ NamesPair(EmittedRows[k], db[i], db[j])

\* check_conflict_in_db, asked about the stored event i in week w with no
\* teachers, reports the stored event j
DetectorReports(i, j, w) ==
    LET a == EventView(db[i])
    IN ConflictRecord(db[j], w)
         \in SeqRange(check_conflict_in_db(db, op.semester, a.groups, a.day,
                                           a.start, a.end, w, NoneSet))

\* C29: for distinct stored events A and B of the semester, A.start < A.end
\* and a week w of A: the unfiltered compute_db_collisions has a pair record
\* of A and B for week w exactly when check_conflict_in_db with A's groups,
\* day, start and end, week w and no teachers reports B.
C29_ReportAgreesWithDetector ==
    IsUnfilteredProgramReport =>
      \A i, j \in 1..Len(db) :
        (/\ i # j
         /\ db[i].semester = op.semester /\ db[j].semester = op.semester
         /\ EventView(db[i]).start < EventView(db[i]).end) =>
          \A w \in EventView(db[i]).weeks :
            ReportHasPair(i, j, w) <=> DetectorReports(i, j, w)

\* A is MTBG;NGMV 10-12 in weeks 36-37, B is MTBG 09-11 in week 36: report
\* and detector have B for week 36, and neither has it for week 37
C29_Witness ==
    /\ IsUnfilteredProgramReport
    /\ Len(db) = 2
    /\ db[1].course = "K4" /\ db[2].course = "K3"
    /\ ReportHasPair(1, 2, 36) /\ DetectorReports(1, 2, 36)
    /\ ~ReportHasPair(1, 2, 37) /\ ~DetectorReports(1, 2, 37)

IsImport == op.name = "bulk_insert_events" /\ "before" \in DOMAIN op

\* the file has a fault: a required column is missing, or a row has an
\* unknown weekday or a start or end time that does not parse
FileHasFault(df) ==
    \E i \in 1..Len(df) :
      \/ ~(RequiredColumns \subseteq DOMAIN df[i])
      \/ ~parse_day(df[i].day).ok
      \/ ~parse_time_str_ok(df[i].start)
      \/ ~parse_time_str_ok(df[i].end)

\* C30: bulk_insert_events is all-or-nothing: if any row of the upload fails
\* normalisation (missing required column, unknown weekday, unparsable start
\* or end time) the call raises and the events table is exactly as before the
\* call; otherwise every row of the upload is inserted.
C30_AllOrNothing ==
    IsImport =>
      IF FileHasFault(op.df)
      THEN res = [kind |-> "ValueError"] /\ db = op.before
      ELSE /\ res = NoResult
           /\ Len(db) = Len(op.before) + Len(op.df)
           /\ SubSeq(db, 1, Len(op.before)) = op.before
           /\ \A i \in 1..Len(op.df) :
                LET row == db[Len(op.before) + i]
                IN /\ row.course = op.df[i].course
                   /\ row.groups = programs_to_str(parse_program(op.df[i].groups))
                   /\ row.day = parse_day(op.df[i].day).day
                   /\ row.start = op.df[i].start /\ row.end = op.df[i].end
                   /\ row.weeks = op.df[i].weeks
                   /\ row.semester = op.df[i].semester

\* a file whose first row is sound and whose second has a start time that
\* does not parse, imported into a table that has rows: nothing is added
C30_Witness ==
    /\ IsImport
    /\ Len(op.df) = 2
    /\ ~FileHasFault(<<op.df[1]>>)
    /\ ~parse_time_str_ok(op.df[2].start)
    /\ op.before # <<>>
    /\ res = [kind |-> "ValueError"]
    /\ db = op.before

\* a sound file of two rows without the teacher column: both rows are added
C30_WitnessInserted ==
    /\ IsImport
    /\ Len(op.df) = 2
    /\ "teacher" \notin DOMAIN op.df[1]
    /\ res = NoResult
    /\ Len(db) = Len(op.before) + 2

\* a file without the weeks column is refused
C30_WitnessMissingColumn ==
    /\ IsImport
    /\ "weeks" \notin DOMAIN op.df[1]
    /\ res = [kind |-> "ValueError"]
    /\ op.before # <<>> /\ db = op.before

====
